---- MODULE Spec2Model ----
(***************************************************************************)
(* Model of the lead-generation request pipeline:                          *)
(*   - APIClient (utils/api-client.js): _rateLimit() and request() with    *)
(*     its retry loop and exponential backoff;                             *)
(*   - LeadWorkflow.generateLeads (workflows/lead-workflow.js) and the     *)
(*     collaborator modules it drives (search, enrichment, contacts,       *)
(*     outreach), each of which wraps one apiClient.post() call.           *)
(*                                                                         *)
(* Time is Date.now() in milliseconds, advanced in steps of TickMs.        *)
(* Synchronous JavaScript between two awaits takes no model time: the      *)
(* clock advances only while no caller has synchronous work pending.       *)
(***************************************************************************)
EXTENDS Integers, Sequences, FiniteSets, TLC

(* ------------------------------ bounds -------------------------------- *)
MaxOps     == 3          \* request() calls the direct callers make in all
MaxTicks   == 2          \* clock steps explored while no caller waits
MaxDelay   == 0          \* ticks a timer may fire late / a call stay in flight
MaxPeople  == 2          \* people the search response may carry
MaxRetries == 4          \* largest `retries` of a caller that runs alone
MaxLen     == 21         \* longest list handed to the batch loop alone

(* ------------------------- program constants -------------------------- *)
TickMs         == 1000
Epoch          == 60000   \* Date.now() at start: later than any interval
DefaultRetries == 3
BatchSize      == 10
DefaultMaxResults == 25
MaxPerPage     == 100

Callers    == {1, 2}                 \* logical callers sharing the one APIClient
DefaultRateLimit == 10
RateLimits == {DefaultRateLimit, 60}         \* config.rateLimit values explored
RetryChoices == {0, 1, DefaultRetries}       \* `retries` a direct caller passes
MaxTime    == Epoch + MaxTicks * TickMs

\* HTTP status of a physical call; 0 stands for a network failure
\* (axios rejects with no error.response).
NetworkFailure == 0
Statuses == {NetworkFailure, 200, 400, 500}

NoError == [status |-> -1, attempt |-> -1]     \* `let lastError;` (undefined)

Min(a, b) == IF a <= b THEN a ELSE b

RECURSIVE Pow2(_)
Pow2(n) == IF n <= 0 THEN 1 ELSE 2 * Pow2(n - 1)

VARIABLES
  now,              \* Date.now()
  rateLimit,        \* this.rateLimit
  lastRequestTime,  \* this.lastRequestTime
  req,              \* per caller: the activation of request() in progress
  inFlight,         \* per caller: physical calls dispatched and not yet settled
  dispatches,       \* the last two physical dispatches of direct callers, oldest first
  opsStarted,       \* request() calls made so far by direct callers
  wpc,              \* position of the generateLeads run ("none": no run)
  config,           \* the argument of generateLeads
  results,          \* const results = {searched, enriched, created, ...}
  leadsToProcess,   \* let leadsToProcess
  enrichedLeads,    \* const enrichedLeads = []
  createdContacts,  \* const createdContacts = []
  idx,              \* loop position: i of the batch loop, index of the lead loop
  calls,            \* collaborator invocations of the run, in order
  retval,           \* what generateLeads settled with
  batches           \* the values `batch` took in the batch loop, in order

transportVars == <<now, rateLimit, lastRequestTime, req, inFlight, dispatches, opsStarted>>
wfVars == <<wpc, config, results, leadsToProcess, enrichedLeads, createdContacts,
            idx, calls, retval, batches>>
vars == <<transportVars, wfVars>>

\* `waited` adds up the delays of the backoff timers the operation has armed.
IdleReq == [pc |-> "idle", retries |-> 0, attempt |-> 0, lastError |-> NoError,
            delay |-> 0, wakeAt |-> 0, sentAt |-> 0, calls |-> 0, waited |-> 0]

(* ------------------------------ APIClient ----------------------------- *)

\* const minInterval = (60 * 1000) / this.rateLimit
MinInterval == (60 * 1000) \div rateLimit

\* BackoffDelay growing linearly: (attempt + 1) * 1000.
BackoffDelayLinear(attempt) == (attempt + 1) * 1000

\* BackoffDelay without the exponent: always 1000.
BackoffDelayConstant(attempt) == 1000

\* Math.pow(2, attempt) * 1000
BackoffDelay(attempt) == Pow2(attempt) * 1000

\* error.response && error.response.status >= 400 && error.response.status < 500
IsClientError(status) == status # NetworkFailure /\ status >= 400 /\ status < 500

\* axios resolves on 2xx and rejects otherwise
IsSuccess(status) == status >= 200 /\ status < 300

\* The log of dispatches is kept for the callers that use the client
\* directly; the collaborator calls of a run are logged in `calls`.
LogDispatch(p, attempt) ==
  LET d == [caller |-> p, time |-> now, attempt |-> attempt]
  IN IF wpc # "none" THEN dispatches
     ELSE IF Len(dispatches) < 2 THEN Append(dispatches, d)
     ELSE <<dispatches[2], d>>

\* LoopHead with the loop bound off by one: `attempt <= retries`.
LoopHeadOffByOne(p, r) ==
  IF r.attempt <= r.retries
    THEN /\ req' = [req EXCEPT ![p] = [r EXCEPT !.pc = "inFlight", !.sentAt = now,
                                                !.calls = @ + 1]]
         /\ inFlight' = [inFlight EXCEPT ![p] = @ + 1]
         /\ dispatches' = LogDispatch(p, r.attempt)
    ELSE /\ req' = [req EXCEPT ![p] = [r EXCEPT !.pc = "thrown"]]
         /\ UNCHANGED <<inFlight, dispatches>>

\* LoopHead with the `await` of axios(config) missing: request() returns
\* while the physical call is still in flight.
LoopHeadNoAwait(p, r) ==
  IF r.attempt < r.retries
    THEN /\ req' = [req EXCEPT ![p] = [r EXCEPT !.pc = "returned", !.calls = @ + 1]]
         /\ inFlight' = [inFlight EXCEPT ![p] = @ + 1]
         /\ dispatches' = LogDispatch(p, r.attempt)
    ELSE /\ req' = [req EXCEPT ![p] = [r EXCEPT !.pc = "thrown"]]
         /\ UNCHANGED <<inFlight, dispatches>>

\* LoopHead as a do-while loop: the first attempt is made whatever `retries`.
LoopHeadAtLeastOnce(p, r) ==
  IF r.attempt < r.retries \/ r.attempt = 0
    THEN /\ req' = [req EXCEPT ![p] = [r EXCEPT !.pc = "inFlight", !.sentAt = now,
                                                !.calls = @ + 1]]
         /\ inFlight' = [inFlight EXCEPT ![p] = @ + 1]
         /\ dispatches' = LogDispatch(p, r.attempt)
    ELSE /\ req' = [req EXCEPT ![p] = [r EXCEPT !.pc = "thrown"]]
         /\ UNCHANGED <<inFlight, dispatches>>

\* The for-loop head of request(): with attempt < retries the next physical
\* call is issued (`await axios(config)`); otherwise the loop is left and
\* `throw lastError` runs.  `r` is the caller's activation on arrival.
LoopHead(p, r) ==
  IF r.attempt < r.retries
    THEN /\ req' = [req EXCEPT ![p] = [r EXCEPT !.pc = "inFlight", !.sentAt = now,
                                                !.calls = @ + 1]]
         /\ inFlight' = [inFlight EXCEPT ![p] = @ + 1]
         /\ dispatches' = LogDispatch(p, r.attempt)
    ELSE /\ req' = [req EXCEPT ![p] = [r EXCEPT !.pc = "thrown"]]
         /\ UNCHANGED <<inFlight, dispatches>>

\* RequestEnter that books its slot before it sleeps: lastRequestTime is set
\* to the time the caller is due to wake.
RequestEnterReservesSlot(p, retries) ==
  LET timeSinceLastRequest == now - lastRequestTime
      fresh == [IdleReq EXCEPT !.retries = retries]
  IN IF timeSinceLastRequest < MinInterval
       THEN /\ req' = [req EXCEPT ![p] = [fresh EXCEPT !.pc = "rateWait",
                          !.wakeAt = now + (MinInterval - timeSinceLastRequest)]]
            /\ lastRequestTime' = now + (MinInterval - timeSinceLastRequest)
            /\ UNCHANGED <<inFlight, dispatches>>
       ELSE /\ lastRequestTime' = now
            /\ LoopHead(p, fresh)

\* request() up to its first suspension: `await this._rateLimit()`.  Either
\* the interval has elapsed, lastRequestTime is set at once and the loop is
\* entered, or the caller sleeps for the remaining delay.
RequestEnter(p, retries) ==
  LET timeSinceLastRequest == now - lastRequestTime
      fresh == [IdleReq EXCEPT !.retries = retries]
  IN IF timeSinceLastRequest < MinInterval
       THEN /\ req' = [req EXCEPT ![p] = [fresh EXCEPT !.pc = "rateWait",
                          !.wakeAt = now + (MinInterval - timeSinceLastRequest)]]
            /\ UNCHANGED <<lastRequestTime, inFlight, dispatches>>
       ELSE /\ lastRequestTime' = now
            /\ LoopHead(p, fresh)

\* The setTimeout of _rateLimit() fires: this.lastRequestTime = Date.now(),
\* then request() goes on to the loop.
RateLimitWake(p) ==
  /\ req[p].pc = "rateWait"
  /\ now >= req[p].wakeAt
  /\ lastRequestTime' = now
  /\ LoopHead(p, [req[p] EXCEPT !.wakeAt = 0])
  /\ UNCHANGED <<now, rateLimit, opsStarted, wfVars>>

\* AfterResponse without the 4xx branch: client errors are retried too.
AfterResponseRetriesClientError(r, status) ==
  LET err == [status |-> status, attempt |-> r.attempt]
  IN IF IsSuccess(status)
       THEN [r EXCEPT !.pc = "returned"]
     ELSE IF r.attempt < r.retries - 1
       THEN [r EXCEPT !.pc = "backoff", !.lastError = err,
                      !.delay = BackoffDelay(r.attempt),
                      !.waited = @ + BackoffDelay(r.attempt),
                      !.wakeAt = now + BackoffDelay(r.attempt)]
       ELSE [r EXCEPT !.pc = "thrown", !.lastError = err, !.attempt = @ + 1]

\* AfterResponse that goes on to the next attempt after a success too, as long
\* as attempts remain.
AfterResponseRetriesAfterSuccess(r, status) ==
  LET err == [status |-> status, attempt |-> r.attempt]
  IN IF IsSuccess(status) /\ r.attempt >= r.retries - 1
       THEN [r EXCEPT !.pc = "returned"]
     ELSE IF IsSuccess(status)
       THEN [r EXCEPT !.pc = "backoff", !.delay = BackoffDelay(r.attempt),
                      !.waited = @ + BackoffDelay(r.attempt),
                      !.wakeAt = now + BackoffDelay(r.attempt)]
     ELSE IF IsClientError(status)
       THEN [r EXCEPT !.pc = "thrown", !.lastError = err]
     ELSE IF r.attempt < r.retries - 1
       THEN [r EXCEPT !.pc = "backoff", !.lastError = err,
                      !.delay = BackoffDelay(r.attempt),
                      !.waited = @ + BackoffDelay(r.attempt),
                      !.wakeAt = now + BackoffDelay(r.attempt)]
       ELSE [r EXCEPT !.pc = "thrown", !.lastError = err, !.attempt = @ + 1]

\* AfterResponse with `lastError = error` only while lastError is unset: the
\* error of the first failed attempt is the one thrown.
AfterResponseKeepsFirstError(r, status) ==
  LET err == IF r.lastError = NoError THEN [status |-> status, attempt |-> r.attempt]
                                      ELSE r.lastError
  IN IF IsSuccess(status)
       THEN [r EXCEPT !.pc = "returned"]
     ELSE IF IsClientError(status)
       THEN [r EXCEPT !.pc = "thrown", !.lastError = err]
     ELSE IF r.attempt < r.retries - 1
       THEN [r EXCEPT !.pc = "backoff", !.lastError = err,
                      !.delay = BackoffDelay(r.attempt),
                      !.waited = @ + BackoffDelay(r.attempt),
                      !.wakeAt = now + BackoffDelay(r.attempt)]
       ELSE [r EXCEPT !.pc = "thrown", !.lastError = err, !.attempt = @ + 1]

\* AfterResponse without the test `attempt < retries - 1`: the backoff is
\* waited after the last permitted attempt too, then the loop ends.
AfterResponseAlwaysBacksOff(r, status) ==
  LET err == [status |-> status, attempt |-> r.attempt]
  IN IF IsSuccess(status)
       THEN [r EXCEPT !.pc = "returned"]
     ELSE IF IsClientError(status)
       THEN [r EXCEPT !.pc = "thrown", !.lastError = err]
     ELSE [r EXCEPT !.pc = "backoff", !.lastError = err,
                    !.delay = BackoffDelay(r.attempt),
                    !.waited = @ + BackoffDelay(r.attempt),
                    !.wakeAt = now + BackoffDelay(r.attempt)]

\* What the try/catch of the loop body does when the physical call settles
\* with `status`.
AfterResponse(r, status) ==
  LET err == [status |-> status, attempt |-> r.attempt]
  IN IF IsSuccess(status)
       THEN [r EXCEPT !.pc = "returned"]                      \* return response.data
     ELSE IF IsClientError(status)
       THEN [r EXCEPT !.pc = "thrown", !.lastError = err]     \* throw error
     ELSE IF r.attempt < r.retries - 1
       THEN [r EXCEPT !.pc = "backoff", !.lastError = err,
                      !.delay = BackoffDelay(r.attempt),
                      !.waited = @ + BackoffDelay(r.attempt),
                      !.wakeAt = now + BackoffDelay(r.attempt)]
       \* last attempt: attempt++ ends the loop, throw lastError
       ELSE [r EXCEPT !.pc = "thrown", !.lastError = err, !.attempt = @ + 1]

\* The physical call of caller p settles.
Respond(p, status) ==
  /\ req[p].pc = "inFlight"
  /\ inFlight' = [inFlight EXCEPT ![p] = @ - 1]
  /\ req' = [req EXCEPT ![p] = AfterResponse([req[p] EXCEPT !.sentAt = 0], status)]
  /\ UNCHANGED <<now, rateLimit, lastRequestTime, dispatches, opsStarted, wfVars>>

\* BackoffWake that records the retry in the rate state:
\* this.lastRequestTime = Date.now() inside the retry loop.
BackoffWakeWritesRateState(p) ==
  /\ req[p].pc = "backoff"
  /\ now >= req[p].wakeAt
  /\ lastRequestTime' = now
  /\ LoopHead(p, [req[p] EXCEPT !.attempt = @ + 1, !.delay = 0, !.wakeAt = 0])
  /\ UNCHANGED <<now, rateLimit, opsStarted, wfVars>>

\* The backoff setTimeout fires: attempt++ and back to the loop head.
BackoffWake(p) ==
  /\ req[p].pc = "backoff"
  /\ now >= req[p].wakeAt
  /\ LoopHead(p, [req[p] EXCEPT !.attempt = @ + 1, !.delay = 0, !.wakeAt = 0])
  /\ UNCHANGED <<now, rateLimit, lastRequestTime, opsStarted, wfVars>>

(* --------------------------- direct callers --------------------------- *)

\* A caller invokes apiClient.request(method, endpoint, data, retries).
ClientCall(p, retries) ==
  /\ req[p].pc = "idle"
  /\ opsStarted < MaxOps
  /\ opsStarted' = opsStarted + 1
  /\ RequestEnter(p, retries)
  /\ UNCHANGED <<now, rateLimit, wfVars>>

\* The caller's await of request() settles (value or exception).
ClientSettle(p) ==
  /\ req[p].pc \in {"returned", "thrown"}
  /\ req' = [req EXCEPT ![p] = IdleReq]
  /\ UNCHANGED <<now, rateLimit, lastRequestTime, inFlight, dispatches, opsStarted, wfVars>>

(* --------------------- generateLeads and collaborators ---------------- *)

Run == 1                      \* the caller that executes the generateLeads run

\* Records the API hands back.  A null entry is malformed data: reading a
\* field of it throws a TypeError.
NullLead     == [id |-> 0, src |-> "null"]
Cand(j)      == [id |-> j, src |-> "search"]           \* an entry of response.people
Person(j)    == [id |-> j, src |-> "enrichment"]       \* a match's person
ExtraPerson  == Person(0)           \* the person of a match no record was sent for
Contact(l)   == [id |-> l.id]                          \* response.contact
\* response.data: null, or an object whose people / matches / contact field
\* has the given content
NullBody     == [isNull |-> TRUE, content |-> <<>>]
Body(c)      == [isNull |-> FALSE, content |-> c]

\* response.people: position j holds candidate j or a null entry.  Beside
\* every list of up to MaxPeople entries, one list that fills a batch and
\* starts the next is explored for the runs that enrich.
LongList == [j \in 1..(BatchSize + 1) |-> "cand"]
PeopleLists(cfg) ==
  UNION {[1..n -> {"cand", "null"}] : n \in 0..MaxPeople}
    \cup (IF cfg.enrichData THEN {LongList} ELSE {})
People(shape) == [j \in 1..Len(shape) |-> IF shape[j] = "cand" THEN Cand(j) ELSE NullLead]

\* response.matches for a batch: one match per record, with a person, without
\* one (unmatched), or a null entry.  Matches beyond the first MaxPeople of a
\* batch are explored as unmatched only.  Nothing ties the length of the
\* response to the request: for a batch of up to MaxPeople records a response
\* with one match more than records submitted is explored too.
MatchShapes(batch) ==
  {[j \in 1..Len(batch) |-> IF j <= Len(s) THEN s[j] ELSE "unmatched"] :
      s \in [1..Min(Len(batch), MaxPeople) -> {"person", "unmatched"}]}
    \cup {[j \in 1..Len(batch) |-> "null"]}
    \cup (IF Len(batch) <= MaxPeople THEN {[j \in 1..(Len(batch) + 1) |-> "person"]}
                                     ELSE {})

Absent == -1                           \* config.maxResults not given (undefined)
MaxResultsChoices == {Absent, 0, 200}
\* sequenceId, emailAccountId: whether the field is present (truthy)
Configs == [defined : {TRUE}, enrichData : BOOLEAN, sequenceId : BOOLEAN,
            emailAccountId : BOOLEAN, maxResults : MaxResultsChoices]
\* generateLeads() called without a config object
NoConfig == [defined |-> FALSE, enrichData |-> FALSE, sequenceId |-> FALSE,
             emailAccountId |-> FALSE, maxResults |-> Absent]

\* {lead: `${first_name} ${last_name}`, error: createResult.error}; the error
\* is undefined when the call succeeded without a contact
LeadError(lead, hasMessage) ==
  [key |-> "lead", subject |-> lead.id, message |-> hasMessage]
\* {step: 'sequence', error: sequenceResult.error}
StepError == [key |-> "step", subject |-> -1, message |-> TRUE]

ZeroResults == [searched |-> 0, enriched |-> 0, created |-> 0, addedToSequence |-> 0,
                errors |-> <<>>]
NoReturn == [kind |-> "pending"]

\* Math.min(config.maxResults || 25, 100)
PerPage(cfg) == Min(IF cfg.maxResults \in {Absent, 0} THEN DefaultMaxResults
                                                     ELSE cfg.maxResults,
                    MaxPerPage)

\* Slice with the end one too far: slice(i, i + 11).
SliceOneTooMany(list, i) == SubSeq(list, i + 1, Min(i + BatchSize + 1, Len(list)))

\* leadsToProcess.slice(i, i + 10), i 0-based
Slice(list, i) == SubSeq(list, i + 1, Min(i + BatchSize, Len(list)))

RECURSIVE SelectPersonsKeepsUnmatched(_, _)
\* SelectPersons without the filter(Boolean): an unmatched entry is kept.
SelectPersonsKeepsUnmatched(batch, shape) ==
  IF Len(shape) = 0 THEN <<>>
  ELSE (IF Len(batch) > 0 THEN <<Person(batch[1].id)>> ELSE <<ExtraPerson>>)
         \o SelectPersonsKeepsUnmatched(IF Len(batch) > 0 THEN Tail(batch) ELSE <<>>,
                                        Tail(shape))

RECURSIVE SelectPersons(_, _)
\* enrichResult.data.map(m => m.person).filter(Boolean)
SelectPersons(batch, shape) ==
  IF Len(shape) = 0 THEN <<>>
  ELSE (IF shape[1] # "person" THEN <<>>
        ELSE IF Len(batch) > 0 THEN <<Person(batch[1].id)>> ELSE <<ExtraPerson>>)
         \o SelectPersons(IF Len(batch) > 0 THEN Tail(batch) ELSE <<>>, Tail(shape))

Ids(list) == [j \in 1..Len(list) |-> list[j].id]

Settled == req[Run].pc \in {"returned", "thrown"}

\* A collaborator is invoked / hands back its {success, data} result.
Invoke(op, arg) ==
  Append(calls, [op |-> op, arg |-> arg, settled |-> FALSE, success |-> FALSE,
                 n |-> 0, data |-> <<>>])
Handed(success, data) ==
  [calls EXCEPT ![Len(calls)] = [@ EXCEPT !.settled = TRUE, !.success = success,
                                          !.n = Len(data), !.data = data]]

\* Success that looks at the body only: a throw of request() is not caught.
SuccessIgnoresThrow(body) == ~body.isNull

\* Every collaborator wraps its apiClient.post() in try/catch: the call
\* succeeded iff request() returned and the body could be read.
Success(body) == req[Run].pc = "returned" /\ ~body.isNull

\* apiClient.post(endpoint, data): request('POST', endpoint, data)
Post == RequestEnter(Run, DefaultRetries)

\* The catch of generateLeads: return {...results, error: error.message}
CatchTopLevel ==
  /\ wpc' = "done"
  /\ retval' = [kind |-> "returned", results |-> results, error |-> TRUE]

\* generateLeads(cfg) up to `await search.searchPeople(...)`.  The first
\* logger.info reads config.maxResults before the try block is entered.
GenerateLeads(cfg) ==
  /\ wpc = "init"
  /\ config' = cfg
  /\ IF cfg = NoConfig
       THEN /\ wpc' = "rejected"
            /\ retval' = [kind |-> "rejected"]
            /\ UNCHANGED <<calls, req, lastRequestTime, inFlight, dispatches>>
       ELSE /\ wpc' = "search"
            /\ calls' = Invoke("searchPeople", <<PerPage(cfg)>>)
            /\ Post
            /\ UNCHANGED retval
  /\ UNCHANGED <<now, rateLimit, opsStarted, results, leadsToProcess, enrichedLeads,
                 createdContacts, idx, batches>>

\* The early return with an error field added to the result.
EarlyReturnWithError ==
  /\ wpc' = "done"
  /\ retval' = [kind |-> "returned", results |-> results, error |-> TRUE]

\* `return results` when the search failed or found nobody.
EarlyReturn ==
  /\ wpc' = "done"
  /\ retval' = [kind |-> "returned", results |-> results, error |-> FALSE]

\* SearchSettled that goes straight to step 3, whatever config.enrichData.
SearchSettledSkipsEnrichment(body) ==
  /\ wpc = "search"
  /\ Settled
  /\ req' = [req EXCEPT ![Run] = IdleReq]
  /\ calls' = Handed(Success(body), IF Success(body) THEN body.content ELSE <<>>)
  /\ LET data == IF Success(body) THEN People(body.content) ELSE <<>>
     IN IF ~Success(body) \/ Len(data) = 0
          THEN /\ EarlyReturn
               /\ UNCHANGED <<results, leadsToProcess, idx>>
          ELSE /\ results' = [results EXCEPT !.searched = Len(data)]
               /\ leadsToProcess' = data
               /\ wpc' = "createLoop"
               /\ idx' = 1
               /\ UNCHANGED retval
  /\ UNCHANGED <<now, rateLimit, lastRequestTime, inFlight, dispatches, opsStarted,
                 config, enrichedLeads, createdContacts, batches>>

\* SearchSettled that goes on to step 2 whatever config.enrichData.
SearchSettledAlwaysEnriches(body) ==
  /\ wpc = "search"
  /\ Settled
  /\ req' = [req EXCEPT ![Run] = IdleReq]
  /\ calls' = Handed(Success(body), IF Success(body) THEN body.content ELSE <<>>)
  /\ LET data == IF Success(body) THEN People(body.content) ELSE <<>>
     IN IF ~Success(body) \/ Len(data) = 0
          THEN /\ EarlyReturn
               /\ UNCHANGED <<results, leadsToProcess, idx>>
          ELSE /\ results' = [results EXCEPT !.searched = Len(data)]
               /\ leadsToProcess' = data
               /\ wpc' = "enrichLoop"
               /\ idx' = 0
               /\ UNCHANGED retval
  /\ UNCHANGED <<now, rateLimit, lastRequestTime, inFlight, dispatches, opsStarted,
                 config, enrichedLeads, createdContacts, batches>>

\* searchPeople settles; `body` carries response.people.
SearchSettled(body) ==
  /\ wpc = "search"
  /\ Settled
  /\ req' = [req EXCEPT ![Run] = IdleReq]
  /\ calls' = Handed(Success(body), IF Success(body) THEN body.content ELSE <<>>)
  /\ LET data == IF Success(body) THEN People(body.content) ELSE <<>>
     IN IF ~Success(body) \/ Len(data) = 0
          THEN /\ EarlyReturn
               /\ UNCHANGED <<results, leadsToProcess, idx>>
          ELSE /\ results' = [results EXCEPT !.searched = Len(data)]
               /\ leadsToProcess' = data
               /\ wpc' = IF config.enrichData THEN "enrichLoop" ELSE "createLoop"
               /\ idx' = IF config.enrichData THEN 0 ELSE 1
               /\ UNCHANGED retval
  /\ UNCHANGED <<now, rateLimit, lastRequestTime, inFlight, dispatches, opsStarted,
                 config, enrichedLeads, createdContacts, batches>>

\* EnrichNext without `leadsToProcess = enrichedLeads`: step 3 works on the
\* raw candidates.
EnrichNextKeepsCandidates ==
  /\ wpc = "enrichLoop"
  /\ IF idx < Len(leadsToProcess)
       THEN LET batch == Slice(leadsToProcess, idx)
            IN /\ batches' = Append(batches, batch)
               /\ IF \E j \in 1..Len(batch) : batch[j] = NullLead
                    THEN /\ CatchTopLevel
                         /\ UNCHANGED <<calls, req, lastRequestTime, inFlight, dispatches,
                                        results, leadsToProcess, idx>>
                    ELSE /\ wpc' = "enrich"
                         /\ calls' = Invoke("enrichPeopleBulk", Ids(batch))
                         /\ Post
                         /\ UNCHANGED <<retval, results, leadsToProcess, idx>>
       ELSE /\ results' = [results EXCEPT !.enriched = Len(enrichedLeads)]
            /\ wpc' = "createLoop"
            /\ idx' = 1
            /\ UNCHANGED <<retval, calls, req, lastRequestTime, inFlight, dispatches,
                           batches, leadsToProcess>>
  /\ UNCHANGED <<now, rateLimit, opsStarted, config, enrichedLeads, createdContacts>>

\* Head of `for (let i = 0; i < leadsToProcess.length; i += 10)`: the next
\* batch is mapped and sent, or the loop ends and the enriched leads replace
\* the candidates.
EnrichNext ==
  /\ wpc = "enrichLoop"
  /\ IF idx < Len(leadsToProcess)
       THEN LET batch == Slice(leadsToProcess, idx)
            IN /\ batches' = Append(batches, batch)
               /\ IF \E j \in 1..Len(batch) : batch[j] = NullLead
                    THEN /\ CatchTopLevel
                         /\ UNCHANGED <<calls, req, lastRequestTime, inFlight, dispatches,
                                        results, leadsToProcess, idx>>
                    ELSE /\ wpc' = "enrich"
                         /\ calls' = Invoke("enrichPeopleBulk", Ids(batch))
                         /\ Post
                         /\ UNCHANGED <<retval, results, leadsToProcess, idx>>
       ELSE /\ results' = [results EXCEPT !.enriched = Len(enrichedLeads)]
            /\ leadsToProcess' = enrichedLeads
            /\ wpc' = "createLoop"
            /\ idx' = 1
            /\ UNCHANGED <<retval, calls, req, lastRequestTime, inFlight, dispatches,
                           batches>>
  /\ UNCHANGED <<now, rateLimit, opsStarted, config, enrichedLeads, createdContacts>>

\* EnrichSettled that reports a failed chunk: an entry is pushed to
\* results.errors when enrichResult.success is false.
EnrichSettledRecordsFailure(body) ==
  /\ wpc = "enrich"
  /\ Settled
  /\ req' = [req EXCEPT ![Run] = IdleReq]
  /\ calls' = Handed(Success(body), IF Success(body) THEN body.content ELSE <<>>)
  /\ LET batch == Slice(leadsToProcess, idx)
     IN IF Success(body) /\ \E j \in 1..Len(body.content) : body.content[j] = "null"
          THEN /\ CatchTopLevel
               /\ UNCHANGED <<enrichedLeads, idx, results>>
          ELSE /\ enrichedLeads' = IF Success(body)
                                     THEN enrichedLeads \o SelectPersons(batch, body.content)
                                     ELSE enrichedLeads
               /\ results' = IF Success(body) THEN results
                              ELSE [results EXCEPT !.errors = Append(@, StepError)]
               /\ idx' = idx + BatchSize
               /\ wpc' = "enrichLoop"
               /\ UNCHANGED retval
  /\ UNCHANGED <<now, rateLimit, lastRequestTime, inFlight, dispatches, opsStarted,
                 config, leadsToProcess, createdContacts, batches>>

\* enrichPeopleBulk settles; `body` carries the shape of response.matches.
EnrichSettled(body) ==
  /\ wpc = "enrich"
  /\ Settled
  /\ req' = [req EXCEPT ![Run] = IdleReq]
  /\ calls' = Handed(Success(body), IF Success(body) THEN body.content ELSE <<>>)
  /\ LET batch == Slice(leadsToProcess, idx)
     IN IF Success(body) /\ \E j \in 1..Len(body.content) : body.content[j] = "null"
          THEN /\ CatchTopLevel
               /\ UNCHANGED <<enrichedLeads, idx>>
          ELSE /\ enrichedLeads' = IF Success(body)
                                     THEN enrichedLeads \o SelectPersons(batch, body.content)
                                     ELSE enrichedLeads
               /\ idx' = idx + BatchSize
               /\ wpc' = "enrichLoop"
               /\ UNCHANGED retval
  /\ UNCHANGED <<now, rateLimit, lastRequestTime, inFlight, dispatches, opsStarted,
                 config, results, leadsToProcess, createdContacts, batches>>

\* SequenceStep that tests config.sequenceId only.
SequenceStepIgnoresAccount ==
  IF config.sequenceId /\ Len(createdContacts) > 0
    THEN /\ wpc' = "sequence"
         /\ calls' = Invoke("addContactsToSequence", Ids(createdContacts))
         /\ Post
         /\ UNCHANGED retval
    ELSE /\ wpc' = "done"
         /\ retval' = [kind |-> "returned", results |-> results, error |-> FALSE]
         /\ UNCHANGED <<calls, req, lastRequestTime, inFlight, dispatches>>

\* SequenceStep with a time budget: the enrollment is skipped when the last
\* call took longer than one physical call (Date.now() is read).
SequenceStepSkipsWhenLate ==
  IF config.sequenceId /\ config.emailAccountId /\ Len(createdContacts) > 0
     /\ now = lastRequestTime
    THEN /\ wpc' = "sequence"
         /\ calls' = Invoke("addContactsToSequence", Ids(createdContacts))
         /\ Post
         /\ UNCHANGED retval
    ELSE /\ wpc' = "done"
         /\ retval' = [kind |-> "returned", results |-> results, error |-> FALSE]
         /\ UNCHANGED <<calls, req, lastRequestTime, inFlight, dispatches>>

\* Step 4, reached when the lead loop is done: the sequence call or the return.
SequenceStep ==
  IF config.sequenceId /\ config.emailAccountId /\ Len(createdContacts) > 0
    THEN /\ wpc' = "sequence"
         /\ calls' = Invoke("addContactsToSequence", Ids(createdContacts))
         /\ Post
         /\ UNCHANGED retval
    ELSE /\ wpc' = "done"
         /\ retval' = [kind |-> "returned", results |-> results, error |-> FALSE]
         /\ UNCHANGED <<calls, req, lastRequestTime, inFlight, dispatches>>

\* Head of `for (const lead of leadsToProcess)`: contactData is built from
\* the next lead and createContact is called, or the loop ends.
CreateNext ==
  /\ wpc = "createLoop"
  /\ IF idx <= Len(leadsToProcess)
       THEN IF leadsToProcess[idx] = NullLead
              THEN /\ CatchTopLevel
                   /\ UNCHANGED <<calls, req, lastRequestTime, inFlight, dispatches>>
              ELSE /\ wpc' = "create"
                   /\ calls' = Invoke("createContact", <<leadsToProcess[idx].id>>)
                   /\ Post
                   /\ UNCHANGED retval
       ELSE SequenceStep
  /\ UNCHANGED <<now, rateLimit, opsStarted, config, results, leadsToProcess,
                 enrichedLeads, createdContacts, idx, batches>>

\* response.contact present or not
CreateBodies == {NullBody, Body(<<"contact">>), Body(<<>>)}

\* AfterCreate that records an error only when the call failed: a success
\* without a contact is neither counted nor recorded.
AfterCreateSkipsNoContact(lead, success, hasData) ==
  IF success /\ hasData
    THEN [createdContacts |-> Append(createdContacts, Contact(lead)),
          results |-> [results EXCEPT !.created = @ + 1], idx |-> idx + 1]
  ELSE IF ~success
    THEN [createdContacts |-> createdContacts,
          results |-> [results EXCEPT !.errors = Append(@, LeadError(lead, TRUE))],
          idx |-> idx + 1]
    ELSE [createdContacts |-> createdContacts, results |-> results, idx |-> idx + 1]

\* AfterCreate that leaves the loop at the first failure (`break`).
AfterCreateStopsOnFailure(lead, success, hasData) ==
  IF success /\ hasData
    THEN [createdContacts |-> Append(createdContacts, Contact(lead)),
          results |-> [results EXCEPT !.created = @ + 1], idx |-> idx + 1]
    ELSE [createdContacts |-> createdContacts,
          results |-> [results EXCEPT !.errors = Append(@, LeadError(lead, ~success))],
          idx |-> Len(leadsToProcess) + 1]

\* AfterCreate that puts a new error entry in front of the earlier ones
\* (unshift instead of push).
AfterCreatePrependsError(lead, success, hasData) ==
  IF success /\ hasData
    THEN [createdContacts |-> Append(createdContacts, Contact(lead)),
          results |-> [results EXCEPT !.created = @ + 1], idx |-> idx + 1]
    ELSE [createdContacts |-> createdContacts,
          results |-> [results EXCEPT !.errors = <<LeadError(lead, ~success)>> \o @],
          idx |-> idx + 1]

\* AfterCreate that tests createResult.success only: a success without a
\* contact is counted as created.
AfterCreateCountsAnySuccess(lead, success, hasData) ==
  IF success
    THEN [createdContacts |-> Append(createdContacts, Contact(lead)),
          results |-> [results EXCEPT !.created = @ + 1], idx |-> idx + 1]
    ELSE [createdContacts |-> createdContacts,
          results |-> [results EXCEPT !.errors = Append(@, LeadError(lead, ~success))],
          idx |-> idx + 1]

\* The body of the lead loop after `await contacts.createContact(...)`:
\* createdContacts.push and results.created++, or results.errors.push; then
\* the next lead.
AfterCreate(lead, success, hasData) ==
  IF success /\ hasData
    THEN [createdContacts |-> Append(createdContacts, Contact(lead)),
          results |-> [results EXCEPT !.created = @ + 1], idx |-> idx + 1]
    ELSE [createdContacts |-> createdContacts,
          results |-> [results EXCEPT !.errors = Append(@, LeadError(lead, ~success))],
          idx |-> idx + 1]

\* createContact settles and the loop body runs to its end.
CreateSettled(body) ==
  /\ wpc = "create"
  /\ Settled
  /\ req' = [req EXCEPT ![Run] = IdleReq]
  /\ calls' = Handed(Success(body), IF Success(body) THEN body.content ELSE <<>>)
  /\ LET after == AfterCreate(leadsToProcess[idx], Success(body), body.content # <<>>)
     IN /\ createdContacts' = after.createdContacts
        /\ results' = after.results
        /\ idx' = after.idx
  /\ wpc' = "createLoop"
  /\ UNCHANGED <<now, rateLimit, lastRequestTime, inFlight, dispatches, opsStarted,
                 config, leadsToProcess, enrichedLeads, retval, batches>>

\* SequenceSettled that treats a failed enrollment as fatal: no error entry,
\* the result carries the top-level error field.
SequenceSettledFailureIsFatal(body) ==
  /\ wpc = "sequence"
  /\ Settled
  /\ req' = [req EXCEPT ![Run] = IdleReq]
  /\ calls' = Handed(req[Run].pc = "returned", <<>>)
  /\ results' = IF req[Run].pc = "returned"
                  THEN [results EXCEPT !.addedToSequence = Len(createdContacts)]
                  ELSE results
  /\ wpc' = "done"
  /\ retval' = [kind |-> "returned", results |-> results',
                error |-> req[Run].pc # "returned"]
  /\ UNCHANGED <<now, rateLimit, lastRequestTime, inFlight, dispatches, opsStarted,
                 config, leadsToProcess, enrichedLeads, createdContacts, idx, batches>>

\* SequenceSettled that counts the records submitted to the create stage
\* instead of the contacts created.
SequenceSettledCountsSubmitted(body) ==
  /\ wpc = "sequence"
  /\ Settled
  /\ req' = [req EXCEPT ![Run] = IdleReq]
  /\ calls' = Handed(req[Run].pc = "returned", <<>>)
  /\ results' = IF req[Run].pc = "returned"
                  THEN [results EXCEPT !.addedToSequence = Len(leadsToProcess)]
                  ELSE [results EXCEPT !.errors = Append(@, StepError)]
  /\ wpc' = "done"
  /\ retval' = [kind |-> "returned", results |-> results', error |-> FALSE]
  /\ UNCHANGED <<now, rateLimit, lastRequestTime, inFlight, dispatches, opsStarted,
                 config, leadsToProcess, enrichedLeads, createdContacts, idx, batches>>

\* SequenceSettled that sets addedToSequence whatever sequenceResult.success.
SequenceSettledCountsOnFailure(body) ==
  /\ wpc = "sequence"
  /\ Settled
  /\ req' = [req EXCEPT ![Run] = IdleReq]
  /\ calls' = Handed(req[Run].pc = "returned", <<>>)
  /\ results' = IF req[Run].pc = "returned"
                  THEN [results EXCEPT !.addedToSequence = Len(createdContacts)]
                  ELSE [results EXCEPT !.addedToSequence = Len(createdContacts),
                                       !.errors = Append(@, StepError)]
  /\ wpc' = "done"
  /\ retval' = [kind |-> "returned", results |-> results', error |-> FALSE]
  /\ UNCHANGED <<now, rateLimit, lastRequestTime, inFlight, dispatches, opsStarted,
                 config, leadsToProcess, enrichedLeads, createdContacts, idx, batches>>

\* addContactsToSequence settles, and generateLeads returns results.
SequenceSettled(body) ==
  /\ wpc = "sequence"
  /\ Settled
  /\ req' = [req EXCEPT ![Run] = IdleReq]
  /\ calls' = Handed(req[Run].pc = "returned", <<>>)
  /\ results' = IF req[Run].pc = "returned"
                  THEN [results EXCEPT !.addedToSequence = Len(createdContacts)]
                  ELSE [results EXCEPT !.errors = Append(@, StepError)]
  /\ wpc' = "done"
  /\ retval' = [kind |-> "returned", results |-> results', error |-> FALSE]
  /\ UNCHANGED <<now, rateLimit, lastRequestTime, inFlight, dispatches, opsStarted,
                 config, leadsToProcess, enrichedLeads, createdContacts, idx, batches>>

(* -------------------------------- clock ------------------------------- *)

\* A settled request() whose caller has yet to run: promise continuations
\* run before any timer or I/O callback.
Runnable(p) ==
  \/ req[p].pc \in {"returned", "thrown"}
  \/ p = Run /\ wpc \in {"init", "enrichLoop", "createLoop"}

Waiting(p) == req[p].pc \in {"rateWait", "backoff", "inFlight"}

\* How late a timer may fire and how long a physical call may stay in
\* flight.  A generateLeads run never reads the clock, so its callbacks are
\* explored as firing when due.
Slack == IF wpc = "none" THEN MaxDelay * TickMs ELSE 0

\* Date.now() advances.  Time always passes for a caller that waits on a
\* timer or a response; idle time is explored up to MaxTime.
Tick ==
  /\ now < MaxTime \/ \E p \in Callers : Waiting(p)
  /\ \A p \in Callers :
       /\ ~Runnable(p)
       /\ req[p].pc \in {"rateWait", "backoff"} => now < req[p].wakeAt + Slack
       /\ req[p].pc = "inFlight" => now < req[p].sentAt + Slack
  /\ now' = now + TickMs
  /\ UNCHANGED <<rateLimit, lastRequestTime, req, inFlight, dispatches, opsStarted, wfVars>>

(* ---------------------------- specification --------------------------- *)

InitTransport(limits) ==
  /\ now = Epoch
  /\ rateLimit \in limits
  /\ lastRequestTime = 0
  /\ req = [p \in Callers |-> IdleReq]
  /\ inFlight = [p \in Callers |-> 0]
  /\ dispatches = <<>>
  /\ opsStarted = 0

InitRun(pc) ==
  /\ wpc = pc
  /\ config = NoConfig
  /\ results = ZeroResults
  /\ leadsToProcess = <<>>
  /\ enrichedLeads = <<>>
  /\ createdContacts = <<>>
  /\ idx = 0
  /\ calls = <<>>
  /\ retval = NoReturn
  /\ batches = <<>>

TransportStep(p) ==
  \/ RateLimitWake(p)
  \/ \E status \in Statuses : Respond(p, status)
  \/ BackoffWake(p)

\* Callers invoking apiClient.request() directly on the shared client.
Init == InitTransport(RateLimits) /\ InitRun("none")

Next ==
  \/ Tick
  \/ \E p \in Callers :
       \/ \E retries \in RetryChoices : ClientCall(p, retries)
       \/ TransportStep(p)
       \/ ClientSettle(p)

Spec == Init /\ [][Next]_vars

\* One generateLeads run over the client, at the default rate limit.
InitWorkflow == InitTransport({DefaultRateLimit}) /\ InitRun("init")

NextWorkflow ==
  \/ Tick
  \/ TransportStep(Run)
  \/ \E cfg \in Configs \cup {NoConfig} : GenerateLeads(cfg)
  \/ \E body \in {NullBody} \cup {Body(c) : c \in PeopleLists(config)} : SearchSettled(body)
  \/ EnrichNext
  \/ \E body \in {NullBody} \cup {Body(c) : c \in MatchShapes(Slice(leadsToProcess, idx))} :
       EnrichSettled(body)
  \/ CreateNext
  \/ \E body \in CreateBodies : CreateSettled(body)
  \/ \E body \in {NullBody, Body(<<>>)} : SequenceSettled(body)

WorkflowSpec == InitWorkflow /\ [][NextWorkflow]_vars

\* One caller alone on the client, with every `retries` up to MaxRetries,
\* zero and a negative count included.
NextRetry ==
  \/ Tick
  \/ \E retries \in -1..MaxRetries : ClientCall(Run, retries)
  \/ TransportStep(Run)
  \/ ClientSettle(Run)

RetrySpec == Init /\ [][NextRetry]_vars

\* The batch loop alone, `for (let i = 0; i < leadsToProcess.length; i += 10)`
\* with `batch = leadsToProcess.slice(i, i + 10)`, on every list of up to
\* MaxLen candidates of which at most one is a null entry.
SplitLists ==
  {People([j \in 1..n |-> IF j = k THEN "null" ELSE "cand"]) :
      n \in 0..MaxLen, k \in 0..MaxLen}

SplitNext ==
  /\ wpc = "split"
  /\ IF idx < Len(leadsToProcess)
       THEN /\ batches' = Append(batches, Slice(leadsToProcess, idx))
            /\ idx' = idx + BatchSize
            /\ UNCHANGED wpc
       ELSE /\ wpc' = "splitDone"
            /\ UNCHANGED <<batches, idx>>
  /\ UNCHANGED <<transportVars, config, results, leadsToProcess, enrichedLeads,
                 createdContacts, calls, retval>>

InitBatch ==
  /\ InitTransport({DefaultRateLimit})
  /\ wpc = "split"
  /\ config = NoConfig
  /\ results = ZeroResults
  /\ leadsToProcess \in SplitLists
  /\ enrichedLeads = <<>>
  /\ createdContacts = <<>>
  /\ idx = 0
  /\ calls = <<>>
  /\ retval = NoReturn
  /\ batches = <<>>

BatchSpec == InitBatch /\ [][SplitNext]_vars

\* The bulk operations of the enrichment module called on their own, with
\* `n` records (people or domains).
BulkOps == {"enrichPeopleBulk", "enrichOrganizationsBulk"}
BulkSizes == {1, BatchSize, BatchSize + 1, 2 * BatchSize}
Records(n) == [j \in 1..n |-> j]

\* BulkCall without the length check: every batch is posted.
BulkCallNoLimit(op, n) ==
  /\ wpc = "bulkIdle"
  /\ Len(calls) < MaxOps
  /\ wpc' = "bulk"
  /\ calls' = Invoke(op, Records(n))
  /\ Post
  /\ UNCHANGED <<now, rateLimit, opsStarted, config, results, leadsToProcess,
                 enrichedLeads, createdContacts, idx, retval, batches>>

\* enrichPeopleBulk(peopleData) / enrichOrganizationsBulk(domains) up to the
\* first suspension: more than 10 records throw inside the try and the catch
\* returns {success: false, error, data: []}; otherwise apiClient.post() is
\* awaited.
BulkCall(op, n) ==
  /\ wpc = "bulkIdle"
  /\ Len(calls) < MaxOps
  /\ IF n > BatchSize
       THEN /\ calls' = Append(calls, [op |-> op, arg |-> Records(n), settled |-> TRUE,
                                       success |-> FALSE, n |-> 0, data |-> <<>>])
            /\ UNCHANGED <<wpc, req, lastRequestTime, inFlight, dispatches>>
       ELSE /\ wpc' = "bulk"
            /\ calls' = Invoke(op, Records(n))
            /\ Post
  /\ UNCHANGED <<now, rateLimit, opsStarted, config, results, leadsToProcess,
                 enrichedLeads, createdContacts, idx, retval, batches>>

\* The post of a bulk operation settles: {success: true, data: response.matches
\* || []} (response.organizations || []), or the catch when request() threw or
\* the body is null.
BulkSettled(body) ==
  /\ wpc = "bulk"
  /\ Settled
  /\ req' = [req EXCEPT ![Run] = IdleReq]
  /\ calls' = Handed(Success(body), IF Success(body) THEN body.content ELSE <<>>)
  /\ wpc' = "bulkIdle"
  /\ UNCHANGED <<now, rateLimit, lastRequestTime, inFlight, dispatches, opsStarted,
                 config, results, leadsToProcess, enrichedLeads, createdContacts,
                 idx, retval, batches>>

InitBulk == InitTransport({DefaultRateLimit}) /\ InitRun("bulkIdle")

NextBulk ==
  \/ Tick
  \/ TransportStep(Run)
  \/ \E op \in BulkOps, n \in BulkSizes : BulkCall(op, n)
  \/ \E body \in {NullBody, Body(<<"person">>)} : BulkSettled(body)

BulkSpec == InitBulk /\ [][NextBulk]_vars

\* Runs that ask for a single lead: generateLeads({..., maxResults: 1}).
OneLead == 1
LimitedConfigs == {[cfg EXCEPT !.maxResults = OneLead] : cfg \in Configs}

NextLimited ==
  \/ Tick
  \/ TransportStep(Run)
  \/ \E cfg \in LimitedConfigs : GenerateLeads(cfg)
  \/ \E body \in {NullBody} \cup {Body(c) : c \in PeopleLists(config)} : SearchSettled(body)
  \/ EnrichNext
  \/ \E body \in {NullBody} \cup {Body(c) : c \in MatchShapes(Slice(leadsToProcess, idx))} :
       EnrichSettled(body)
  \/ CreateNext
  \/ \E body \in CreateBodies : CreateSettled(body)
  \/ \E body \in {NullBody, Body(<<>>)} : SequenceSettled(body)

LimitSpec == InitWorkflow /\ [][NextLimited]_vars

(* ------------------------------ properties ---------------------------- *)

TypeOK ==
  /\ now >= Epoch
  /\ lastRequestTime <= now
  /\ \A p \in Callers : inFlight[p] \in 0..1
  /\ wpc \in {"none", "init", "rejected", "search", "enrichLoop", "enrich",
              "createLoop", "create", "sequence", "done", "split", "splitDone",
              "bulkIdle", "bulk"}

IsPrefix(a, b) == Len(a) <= Len(b) /\ a = SubSeq(b, 1, Len(a))

CallsOf(op) == SelectSeq(calls, LAMBDA c : c.op = op)
\* the record each createContact invocation was made for, in call order
CreateArgs ==
  LET made == CallsOf("createContact")
  IN [j \in 1..Len(made) |-> made[j].arg[1]]
\* the records whose creation was acknowledged with a contact, in call order
CreatedArgs ==
  LET ok == SelectSeq(CallsOf("createContact"),
                      LAMBDA c : c.settled /\ c.success /\ c.n = 1)
  IN [j \in 1..Len(ok) |-> ok[j].arg[1]]
\* the records whose creation call settled without a contact, in call order
FailedArgs ==
  LET bad == SelectSeq(CallsOf("createContact"),
                       LAMBDA c : c.settled /\ ~(c.success /\ c.n = 1))
  IN [j \in 1..Len(bad) |-> bad[j].arg[1]]

LeadErrors(errors) == SelectSeq(errors, LAMBDA e : e.key = "lead")
LeadErrorSubjects(errors) ==
  LET perLead == LeadErrors(errors)
  IN [j \in 1..Len(perLead) |-> perLead[j].subject]

\* the records of `list` before its first malformed (null) entry
Processable(list) ==
  LET nulls == {j \in 1..Len(list) : list[j] = NullLead}
  IN IF nulls = {} THEN list
     ELSE SubSeq(list, 1, (CHOOSE j \in nulls : \A k \in nulls : j <= k) - 1)

\* the run has entered the lead loop of step 3
EnteredCreate ==
  \/ wpc \in {"createLoop", "create", "sequence"}
  \/ wpc = "done" /\ results.searched > 0 /\ (retval.error => ~config.enrichData)

\* C1: any two consecutive physical dispatches to the remote API, retries
\* included, are at least 60000/rateLimit ms apart.
C1_DispatchesSpaced ==
  Len(dispatches) = 2 => dispatches[2].time - dispatches[1].time >= MinInterval

\* C2 as stated: a logical operation issues at most `retries` physical
\* calls, and when its response is a 4xx exactly one physical call was issued.
C2_OneCallOnClientError ==
  \A p \in Callers :
    /\ req[p].calls <= req[p].retries
    /\ IsClientError(req[p].lastError.status) => req[p].calls = 1

\* C2 (amended): a logical operation issues at most `retries` physical calls;
\* a 4xx answer to the physical call with index a ends the operation after
\* exactly a + 1 physical calls, so exactly one call when the first answer is
\* a 4xx.
C2_CallsBounded ==
  \A p \in Callers :
    /\ req[p].calls <= req[p].retries
    /\ IsClientError(req[p].lastError.status) =>
         /\ req[p].calls = req[p].lastError.attempt + 1
         /\ req[p].lastError.attempt = 0 => req[p].calls = 1

C2_Witness ==
  \E p \in Callers :
    /\ req[p].pc = "thrown"
    /\ IsClientError(req[p].lastError.status)
    /\ req[p].lastError.attempt = 1
    /\ req[p].calls = 2
    /\ req[p].retries = DefaultRetries

\* C3: a physical call answered with a status in [400,500) is never retried:
\* request() throws at that attempt, no backoff timer is armed, no call is in
\* flight and the loop does not advance, whatever the attempt index and
\* however many attempts remain.
C3_ClientErrorNotRetried ==
  \A p \in Callers :
    IsClientError(req[p].lastError.status) =>
      /\ req[p].pc = "thrown"
      /\ req[p].wakeAt = 0
      /\ inFlight[p] = 0
      /\ req[p].attempt = req[p].lastError.attempt

C3_Witness ==
  \E p \in Callers :
    /\ req[p].pc = "thrown"
    /\ req[p].lastError = [status |-> 400, attempt |-> 0]
    /\ req[p].retries = DefaultRetries

\* C4: generateLeads never throws to its caller: whatever the config and the
\* collaborators do, the call settles by returning a result object.
C4_NeverThrows ==
  /\ retval.kind # "rejected"
  /\ wpc \in {"done", "rejected"} => retval.kind = "returned"

\* C5: in every result returned without a top-level error by a run that
\* reached the create stage, created plus the number of per-lead error
\* entries equals the number of records submitted to the create stage: the
\* raw candidates when enrichment is off, the enriched records when it is on.
C5_CreatedPlusErrors ==
  (retval.kind = "returned" /\ ~retval.error /\ retval.results.searched > 0) =>
    /\ retval.results.created + Len(LeadErrors(retval.results.errors)) = Len(leadsToProcess)
    /\ Len(leadsToProcess) = IF config.enrichData THEN retval.results.enriched
                                                  ELSE retval.results.searched

C5_Witness ==
  /\ retval.kind = "returned" /\ ~retval.error
  /\ retval.results.created >= 1
  /\ Len(LeadErrors(retval.results.errors)) >= 1
  /\ \E j \in 1..Len(retval.results.errors) : ~retval.results.errors[j].message

C7_NoLeadsReturnsZero ==
  (Len(calls) >= 1 /\ calls[1].settled /\ (~calls[1].success \/ calls[1].n = 0)) =>
    /\ wpc = "done"
    /\ retval = [kind |-> "returned", results |-> ZeroResults, error |-> FALSE]
    /\ Len(calls) = 1
    /\ req[Run].pc = "idle" /\ inFlight[Run] = 0

C7_Witness ==
  /\ wpc = "done"
  /\ calls[1].settled /\ calls[1].success /\ calls[1].n = 0
  /\ config.enrichData /\ config.sequenceId /\ config.emailAccountId

\* C8: callers that share the APIClient are serialized by the rate limiter:
\* the first physical calls of two logical operations of different callers
\* are at least 60000/rateLimit ms apart.
C8_CallersSerialized ==
  (/\ Len(dispatches) = 2
   /\ dispatches[1].caller # dispatches[2].caller
   /\ dispatches[1].attempt = 0 /\ dispatches[2].attempt = 0) =>
    dispatches[2].time - dispatches[1].time >= MinInterval

\* C9: within one generateLeads run at most one physical call is in flight at
\* any moment, and a collaborator call is issued only after every earlier one
\* has settled, its retries included.
C9_OneInFlight ==
  /\ inFlight[Run] <= 1
  /\ \A j \in 1..(Len(calls) - 1) : calls[j].settled
  /\ (inFlight[Run] > 0 \/ req[Run].pc # "idle") =>
       (Len(calls) > 0 /\ ~calls[Len(calls)].settled)

C9_Witness ==
  /\ inFlight[Run] = 1
  /\ req[Run].attempt = 2
  /\ wpc = "create"
  /\ Len(CallsOf("enrichPeopleBulk")) = 2
  /\ Len(CallsOf("createContact")) = 2

SequenceCalls == CallsOf("addContactsToSequence")

C11_SequenceFailureRecorded ==
  (/\ wpc = "done"
   /\ Len(SequenceCalls) = 1 /\ ~SequenceCalls[1].success
   /\ FailedArgs = <<>>) =>
    /\ retval = [kind |-> "returned", results |-> results, error |-> FALSE]
    /\ results.created = Len(leadsToProcess)
    /\ results.created = Len(SequenceCalls[1].arg)
    /\ results.addedToSequence = 0
    /\ results.errors = <<StepError>>

C11_Witness ==
  /\ wpc = "done"
  /\ Len(SequenceCalls) = 1 /\ SequenceCalls[1].settled /\ ~SequenceCalls[1].success
  /\ FailedArgs = <<>>
  /\ results.created = 2
  /\ results.errors = <<StepError>>

EnrichCalls == CallsOf("enrichPeopleBulk")
CeilDiv(a, b) == (a + b - 1) \div b
\* the candidates the search handed back, and their number L
Candidates == People(calls[1].data)
SearchFound == Len(calls) >= 1 /\ calls[1].settled /\ calls[1].success /\ calls[1].n > 0
\* <<k, j>>: entry j of the response to the k-th enrichment call is a match
\* with a person, and that call succeeded
MatchedEntries(ec) ==
  {e \in (1..Len(ec)) \X (1..(BatchSize + 1)) :
     /\ ec[e[1]].success
     /\ e[2] <= Len(ec[e[1]].data)
     /\ ec[e[1]].data[e[2]] = "person"}
Before(e, f) == e[1] < f[1] \/ (e[1] = f[1] /\ e[2] <= f[2])
\* the matched persons in chunk order, then in response order
MatchedIds(ec, matched) ==
  [n \in 1..Cardinality(matched) |->
     LET e == CHOOSE f \in matched : Cardinality({g \in matched : Before(g, f)}) = n
     IN IF e[2] <= Len(ec[e[1]].arg) THEN ec[e[1]].arg[e[2]] ELSE 0]
\* the enrichment loop was left at its end
EnrichmentCompleted == config.enrichData /\ EnteredCreate

RECURSIVE Concat(_)
Concat(lists) == IF Len(lists) = 0 THEN <<>> ELSE lists[1] \o Concat(Tail(lists))

\* C13: the batch loop splits a list of length L into ceil(L/10) chunks of 1
\* to 10 items (none for L = 0); chunk k is the contiguous run of the list
\* that starts at item 10(k-1)+1, and the chunks concatenated in order are the
\* list itself, same items in the same order.
C13_SplitPreservesList ==
  wpc \in {"split", "splitDone"} =>
    LET L == Len(leadsToProcess)
    IN /\ \A k \in 1..Len(batches) :
            /\ Len(batches[k]) \in 1..BatchSize
            /\ batches[k] = SubSeq(leadsToProcess, BatchSize * (k - 1) + 1,
                                    BatchSize * (k - 1) + Len(batches[k]))
       /\ Concat(batches) = SubSeq(leadsToProcess, 1, Min(idx, L))
       /\ wpc = "splitDone" =>
            /\ Len(batches) = CeilDiv(L, BatchSize)
            /\ Concat(batches) = leadsToProcess

C13_Witness ==
  /\ wpc = "splitDone"
  /\ Len(leadsToProcess) = 2 * BatchSize + 1
  /\ Len(batches) = 3
  /\ Len(batches[3]) = 1
  /\ batches[2][BatchSize] = NullLead

\* C14: in every result of a run in which enrichment ran, searched >= enriched,
\* whatever the bulk-enrichment responses were, a response with more matches
\* than records submitted included.
C14_SearchedAtLeastEnriched ==
  (retval.kind = "returned" /\ config.enrichData /\ Len(EnrichCalls) > 0) =>
    retval.results.searched >= retval.results.enriched

Counters(r) == {r.searched, r.enriched, r.created, r.addedToSequence}

\* C15: in every state of a run and in every returned result,
\* addedToSequence <= created and the four counters are non-negative integers.
C15_CountersOrdered ==
  /\ results.addedToSequence <= results.created
  /\ Counters(results) \subseteq Nat
  /\ retval.kind = "returned" =>
       /\ retval.results.addedToSequence <= retval.results.created
       /\ Counters(retval.results) \subseteq Nat

C15_Witness ==
  /\ retval.kind = "returned"
  /\ retval.results.addedToSequence = 1
  /\ retval.results.created = 1
  /\ Len(LeadErrors(retval.results.errors)) = 1

Retryable(status) == ~IsSuccess(status) /\ ~IsClientError(status)

\* C16: when the physical call with 0-based index a fails retryably (status
\* >= 500 or network failure) and attempts remain (a < retries - 1), request()
\* arms a timer of 2^a * 1000 ms; nothing is issued while it waits, and when
\* the timer has run out the next thing request() does is to issue the
\* physical call with index a + 1.
C16_BackoffThenRetry ==
  [][\A p \in Callers :
       /\ (req[p].pc = "inFlight" /\ req'[p].pc # "inFlight") =>
            LET a == req[p].attempt
                failed == req'[p].lastError
            IN (/\ failed.attempt = a /\ failed.status \in Statuses
                /\ Retryable(failed.status) /\ a < req[p].retries - 1) =>
                 /\ req'[p].pc = "backoff"
                 /\ req'[p].attempt = a
                 /\ req'[p].wakeAt = now + Pow2(a) * 1000
                 /\ inFlight'[p] = 0
       /\ (req[p].pc = "backoff" /\ req'[p] # req[p]) =>
            /\ now >= req[p].wakeAt
            /\ req'[p].pc = "inFlight"
            /\ req'[p].attempt = req[p].attempt + 1
            /\ req'[p].calls = req[p].calls + 1
            /\ inFlight'[p] = 1]_vars

C16_Witness ==
  /\ req[Run].pc = "inFlight"
  /\ req[Run].attempt = 3
  /\ req[Run].lastError = [status |-> NetworkFailure, attempt |-> 2]
  /\ now - dispatches[1].time = 4000

\* C17 as stated: the backoff waited immediately before the physical attempt
\* with index i >= 1 is 2^i * 1000 ms.
C17_BackoffBeforeAttempt ==
  [][\A p \in Callers :
       (req[p].pc = "backoff" /\ req'[p].pc = "inFlight") =>
         LET i == req'[p].attempt
         IN i >= 1 /\ req[p].delay = Pow2(i) * 1000]_vars

\* C17 (amended): the backoff waited immediately before the physical attempt
\* with index i >= 1 is 2^(i-1) * 1000 ms (1 s before attempt 1, 2 s before
\* attempt 2, 4 s before attempt 3): it is a function of i alone, and the
\* attempt is not issued before that time has passed.
C17_BackoffBeforeAttemptShifted ==
  [][\A p \in Callers :
       (req[p].pc = "backoff" /\ req'[p].pc = "inFlight") =>
         LET i == req'[p].attempt
             armedAt == req[p].wakeAt - req[p].delay
         IN /\ i >= 1
            /\ req[p].delay = Pow2(i - 1) * 1000
            /\ now - armedAt >= Pow2(i - 1) * 1000]_vars

C17_Witness ==
  /\ req[Run].pc = "inFlight"
  /\ req[Run].attempt = 2
  /\ req[Run].retries = DefaultRetries
  /\ Len(dispatches) = 2 /\ dispatches[2].attempt = 2
  /\ dispatches[2].time - dispatches[1].time = 2000

\* C18: when request() with retries >= 1 throws after a retryable failure,
\* every one of its `retries` physical calls was issued, no more, and the
\* error thrown is the error of the last of them (index retries - 1).
C18_LastErrorThrown ==
  \A p \in Callers :
    (req[p].pc = "thrown" /\ req[p].retries >= 1
       /\ ~IsClientError(req[p].lastError.status)) =>
      /\ req[p].calls = req[p].retries
      /\ req[p].lastError.attempt = req[p].retries - 1
      /\ Retryable(req[p].lastError.status)
      /\ inFlight[p] = 0

C18_Witness ==
  /\ req[Run].pc = "thrown"
  /\ req[Run].retries = MaxRetries
  /\ req[Run].calls = MaxRetries
  /\ req[Run].lastError = [status |-> 500, attempt |-> MaxRetries - 1]

\* C19: every physical call, first or retry, is immediately preceded by its
\* own completed _rateLimit() call: this.lastRequestTime, which _rateLimit()
\* sets on completion, is never older than the latest physical dispatch.
C19_AcquireBeforeEachCall ==
  Len(dispatches) > 0 => lastRequestTime >= dispatches[Len(dispatches)].time

StageOf(op) ==
  CASE op = "searchPeople" -> 1
    [] op = "enrichPeopleBulk" -> 2
    [] op = "createContact" -> 3
    [] op = "addContactsToSequence" -> 4

\* C20: the collaborator calls of a run come in the order search, enrichment
\* (only if requested), creation, sequence enrollment, each one after every
\* earlier one has settled: the search is the first call and the only search,
\* the first creation call comes after the last enrichment call (all
\* ceil(L/10) of them made and settled), and the one enrollment call after
\* the last creation call.
C20_StagesInOrder ==
  /\ \A j, k \in 1..Len(calls) :
       j < k => calls[j].settled /\ StageOf(calls[j].op) <= StageOf(calls[k].op)
  /\ Len(calls) >= 1 => calls[1].op = "searchPeople"
  /\ Len(CallsOf("searchPeople")) <= 1
  /\ Len(SequenceCalls) <= 1
  /\ Len(EnrichCalls) > 0 => config.enrichData
  /\ (config.enrichData /\ Len(CreateArgs) > 0) =>
       Len(EnrichCalls) = CeilDiv(calls[1].n, BatchSize)
  /\ Len(SequenceCalls) = 1 => CreateArgs = Ids(leadsToProcess)

C20_Witness ==
  /\ wpc = "done"
  /\ Len(EnrichCalls) = 2
  /\ Len(CreateArgs) = 2
  /\ Len(SequenceCalls) = 1
  /\ calls[Len(calls)].op = "addContactsToSequence"

\* C21: a bulk operation called with more than 10 records is rejected on the
\* spot: the call is over with {success: false, data: []} and neither the
\* rate limiter (lastRequestTime, a wait) nor the network was touched; called
\* with 10 records or fewer it enters request() once, and request() is
\* entered at no other moment.
C21_BulkLimit ==
  [][/\ (Len(calls') = Len(calls) + 1 /\ calls'[Len(calls')].op \in BulkOps) =>
          LET c == calls'[Len(calls')]
          IN IF Len(c.arg) > BatchSize
               THEN /\ c.settled /\ ~c.success /\ c.data = <<>>
                    /\ UNCHANGED <<lastRequestTime, req, inFlight, now>>
               ELSE /\ ~c.settled
                    /\ req[Run].pc = "idle"
                    /\ req'[Run].pc \in {"rateWait", "inFlight"}
                    /\ req'[Run].calls = inFlight'[Run]
     /\ (req[Run].pc = "idle" /\ req'[Run].pc # "idle") =>
          /\ Len(calls') = Len(calls) + 1
          /\ Len(calls'[Len(calls')].arg) <= BatchSize]_vars

C21_Witness ==
  /\ wpc = "bulkIdle"
  /\ Len(calls) = 3
  /\ calls[1].op = "enrichPeopleBulk" /\ Len(calls[1].arg) = BatchSize /\ calls[1].success
  /\ calls[2].op = "enrichPeopleBulk" /\ Len(calls[2].arg) = BatchSize + 1
  /\ calls[3].op = "enrichOrganizationsBulk" /\ Len(calls[3].arg) = 2 * BatchSize
  /\ ~calls[2].success /\ ~calls[3].success
  /\ lastRequestTime = Epoch
  /\ now > Epoch

\* C22: when the post of a collaborator operation of the run (searchPeople,
\* enrichPeopleBulk, createContact, addContactsToSequence) settles, a throw of
\* request() is handed to the workflow as {success: false} with empty data,
\* and the run goes on or returns without the error field: the exception does
\* not propagate; success: true is handed back only when request() returned.
C22_FailuresConverted ==
  [][(/\ Len(calls) > 0 /\ Len(calls') = Len(calls)
      /\ ~calls[Len(calls)].settled /\ calls'[Len(calls)].settled) =>
       LET c == calls'[Len(calls)]
       IN /\ c.op \in {"searchPeople", "enrichPeopleBulk", "createContact",
                       "addContactsToSequence"}
          /\ req[Run].pc \in {"returned", "thrown"}
          /\ c.success => req[Run].pc = "returned"
          /\ req[Run].pc = "thrown" =>
               /\ ~c.success /\ c.data = <<>>
               /\ wpc' # "rejected" /\ retval'.kind # "rejected"
               /\ retval'.kind = "returned" => ~retval'.error]_vars

C22_Witness ==
  /\ wpc = "create"
  /\ req[Run].pc = "thrown"
  /\ req[Run].lastError = [status |-> 500, attempt |-> 2]
  /\ Len(calls) = 3
  /\ calls[2].op = "createContact" /\ calls[2].settled /\ ~calls[2].success
  /\ results.errors = <<LeadError(leadsToProcess[1], TRUE)>>

\* C23: a physical call that succeeds ends the logical operation at once, at
\* any attempt index: a call that settles leads to a backoff or to a throw
\* only with the failure of that very attempt as lastError, and once request()
\* has returned no timer is armed, nothing is in flight and no further
\* physical call is issued for the operation.
C23_SuccessReturnsAtOnce ==
  [][\A p \in Callers :
       /\ (req[p].pc = "inFlight" /\ req'[p].pc \in {"backoff", "thrown"}) =>
            /\ req'[p].lastError.attempt = req[p].attempt
            /\ ~IsSuccess(req'[p].lastError.status)
       /\ (req[p].pc = "inFlight" /\ req'[p].pc = "returned") =>
            /\ req'[p].wakeAt = 0 /\ req'[p].delay = 0
            /\ inFlight'[p] = 0
            /\ req'[p].calls = req[p].calls
            /\ req'[p].calls = req'[p].attempt + 1
       /\ (req[p].pc = "returned" /\ req'[p] # req[p]) =>
            /\ req'[p] = IdleReq
            /\ inFlight'[p] = 0]_vars

C23_Witness ==
  /\ req[Run].pc = "returned"
  /\ req[Run].attempt = 2
  /\ req[Run].retries = MaxRetries
  /\ req[Run].lastError = [status |-> 500, attempt |-> 1]
  /\ inFlight[Run] = 0

\* C24: a run makes exactly one searchPeople call, its first collaborator
\* call, whatever that call returns, and makes it with per_page =
\* min(maxResults, 100), where maxResults is 25 when the config does not
\* give it.
C24_SearchOnceWithPerPage ==
  LET searches == CallsOf("searchPeople")
      maxResults == IF config.maxResults = Absent THEN DefaultMaxResults
                                                  ELSE config.maxResults
  IN /\ Len(searches) <= 1
     /\ wpc \in {"search", "enrichLoop", "enrich", "createLoop", "create", "sequence",
                 "done"} =>
          /\ Len(searches) = 1
          /\ calls[1].op = "searchPeople"
          /\ calls[1].arg = <<Min(maxResults, MaxPerPage)>>

\* the creation calls that have settled, in call order
SettledCreates == SelectSeq(calls, LAMBDA c : c.op = "createContact" /\ c.settled)

\* C25: when creation failed for k of the N records processed so far, created
\* is N - k and errors holds exactly k per-lead entries, one for each failed
\* record and naming it, in the order the records were processed; the entry
\* of the sequence step, if there is one, is the last entry.
C25_FailuresNamedInOrder ==
  LET N == Len(SettledCreates)
      failed == FailedArgs
      k == Len(failed)
  IN /\ results.created = N - k
     /\ Len(LeadErrors(results.errors)) = k
     /\ LeadErrorSubjects(results.errors) = failed
     /\ \A j \in 1..Len(results.errors) :
          results.errors[j].key = "step" => j = Len(results.errors)
     /\ retval.kind = "returned" =>
          /\ retval.results.created = N - k
          /\ retval.results.errors = results.errors

C25_Witness ==
  /\ wpc = "done"
  /\ Len(SettledCreates) = 3
  /\ results.created = 1
  /\ Len(results.errors) = 3
  /\ results.errors[1].subject = leadsToProcess[1].id
  /\ results.errors[2].subject = leadsToProcess[3].id
  /\ results.errors[1].subject # results.errors[2].subject
  /\ results.errors[3] = StepError

\* C26: when a createContact call settles, created goes up by one if the call
\* handed back success with a contact, and in that case nothing is added to
\* errors; otherwise (the call failed or succeeded without a contact) created
\* stays as it is and one entry for that record is added to errors.
C26_CreatedCountsAcknowledged ==
  [][(/\ Len(calls) > 0 /\ Len(calls') = Len(calls)
      /\ calls[Len(calls)].op = "createContact"
      /\ ~calls[Len(calls)].settled /\ calls'[Len(calls)].settled) =>
       LET c == calls'[Len(calls)]
       IN IF c.success /\ c.data = <<"contact">>
            THEN /\ results'.created = results.created + 1
                 /\ results'.errors = results.errors
            ELSE /\ results'.created = results.created
                 /\ Len(results'.errors) = Len(results.errors) + 1
                 /\ results'.errors[Len(results'.errors)].key = "lead"
                 /\ results'.errors[Len(results'.errors)].subject = c.arg[1]]_vars
  /\ [][results'.created # results.created =>
          /\ Len(calls) > 0
          /\ calls[Len(calls)].op = "createContact"
          /\ ~calls[Len(calls)].settled /\ calls'[Len(calls)].settled]_vars

C26_Witness ==
  /\ wpc = "createLoop"
  /\ Len(calls) = 3
  /\ calls[2].op = "createContact" /\ calls[2].success /\ calls[2].data = <<>>
  /\ calls[3].op = "createContact" /\ calls[3].success /\ calls[3].data = <<"contact">>
  /\ results.created = 1
  /\ Len(results.errors) = 1 /\ ~results.errors[1].message

\* C29: in a run with enrichment, creation calls are made for the enriched
\* records only: none before the enrichment stage is over, then one for each
\* matched entry of a successful chunk, in chunk order, and none for a
\* candidate that was unmatched or whose chunk failed.
C29_CreatesEnrichedOnly ==
  config.enrichData =>
    LET ec == EnrichCalls
        expected == MatchedIds(ec, MatchedEntries(ec))
        created == CreateArgs
    IN /\ ~EnrichmentCompleted => created = <<>>
       /\ EnrichmentCompleted =>
            /\ IsPrefix(created, expected)
            /\ wpc \in {"sequence", "done"} => created = expected
            /\ \A j \in 1..Len(leadsToProcess) : leadsToProcess[j].src = "enrichment"

C29_Witness ==
  /\ wpc = "done"
  /\ config.enrichData
  /\ Len(EnrichCalls) = 2
  /\ ~EnrichCalls[1].success
  /\ EnrichCalls[2].success /\ EnrichCalls[2].data = <<"person">>
  /\ CreateArgs = <<BatchSize + 1>>

\* C30: this.lastRequestTime changes only in a step in which a _rateLimit()
\* call completes, at the start of a request() or when its timer fires, and
\* it is set to Date.now(); the retry loop, the settling of a call and every
\* step of the modules and of the workflow leave it as it is.
C30_RateStateFrame ==
  [][lastRequestTime' # lastRequestTime =>
       /\ lastRequestTime' = now
       /\ \E p \in Callers :
            /\ req[p].pc \in {"idle", "rateWait"}
            /\ req'[p].pc \in {"inFlight", "thrown"}
            /\ req'[p].attempt = 0]_vars

C30_Witness ==
  /\ wpc = "create"
  /\ req[Run].pc = "inFlight"
  /\ req[Run].attempt = 2
  /\ lastRequestTime > Epoch
  /\ now = lastRequestTime + 3000

\* C27: callers waiting in _rateLimit() are resumed in call order: while a
\* caller that invoked _rateLimit() earlier still waits for its timer, no
\* caller that invokes it later gets its physical call dispatched.
C27_FifoResume ==
  [][\A a, b \in Callers :
       (/\ a # b
        /\ req[a].pc = "rateWait"
        /\ req[b].pc = "idle"
        /\ req'[b].pc = "inFlight") => req'[a].pc # "rateWait"]_vars

\* The states of the request() state machine.
Phase(r) ==
  CASE r.pc = "idle" -> "Idle"
    [] r.pc \in {"rateWait", "inFlight"} -> "Attempting"
    [] r.pc = "backoff" -> "Retrying"
    [] r.pc = "returned" -> "Success"
    [] r.pc = "thrown" /\ IsClientError(r.lastError.status) -> "ClientFailure"
    [] OTHER -> "ServerFailure"

Terminal == {"Success", "ClientFailure", "ServerFailure"}

\* The transitions of the state machine; from a terminal state the caller
\* goes on, possibly with its next operation.
PhaseStep(from, to) ==
  \/ from = to
  \/ from = "Idle" /\ to = "Attempting"
  \/ from = "Attempting" /\ to \in Terminal \cup {"Retrying"}
  \/ from = "Retrying" /\ to = "Attempting"
  \/ from \in Terminal /\ to \in {"Idle", "Attempting"}

\* C28: the run never stops before its end, request() moves along the
\* transitions of its state machine only, and a run that has ended has ended
\* with a returned result, its last operation finished.
C28_TerminatesReturned ==
  /\ [](wpc \in {"done", "rejected"} \/ ENABLED NextWorkflow)
  /\ [][PhaseStep(Phase(req[Run]), Phase(req'[Run]))]_vars
  /\ [](wpc \in {"done", "rejected"} => retval.kind = "returned" /\ req[Run].pc = "idle")

\* C31: a run makes at most min(maxResults || 25, 100) contact-creation
\* calls, however many people the search hands back.
C31_CreatesWithinLimit ==
  config.defined => Len(CallsOf("createContact")) <= PerPage(config)

\* What a run does next as a function of its config and of the outcomes of
\* the collaborator calls made so far (`log`, every entry settled): the next
\* collaborator call, or the return with or without the top-level error.
OfOp(log, op) == SelectSeq(log, LAMBDA c : c.op = op)
CallStep(op, arg) == [kind |-> "call", op |-> op, arg |-> arg, error |-> FALSE]
ReturnStep(error) == [kind |-> "return", op |-> "", arg |-> <<>>, error |-> error]
HasNull(list) == \E j \in 1..Len(list) : list[j] = NullLead

RECURSIVE EnrichedOf(_, _, _)
EnrichedOf(cand, ec, k) ==
  IF k > Len(ec) THEN <<>>
  ELSE (IF ec[k].success THEN SelectPersons(Slice(cand, (k - 1) * BatchSize), ec[k].data)
                         ELSE <<>>)
         \o EnrichedOf(cand, ec, k + 1)

LeadsOf(cfg, log) ==
  IF cfg.enrichData THEN EnrichedOf(People(log[1].data), OfOp(log, "enrichPeopleBulk"), 1)
                    ELSE People(log[1].data)

CreatedOf(log) ==
  LET ok == SelectSeq(log, LAMBDA c : c.op = "createContact" /\ c.success /\ c.n = 1)
  IN [j \in 1..Len(ok) |-> ok[j].arg[1]]

NextStep(cfg, log) ==
  IF Len(log) = 0 THEN CallStep("searchPeople", <<PerPage(cfg)>>)
  ELSE IF ~log[1].success \/ log[1].n = 0 THEN ReturnStep(FALSE)
  ELSE
    LET cand == People(log[1].data)
        ec == OfOp(log, "enrichPeopleBulk")
        done == Len(ec) * BatchSize
    IN IF cfg.enrichData /\ Len(ec) > 0 /\ ec[Len(ec)].success
          /\ \E j \in 1..ec[Len(ec)].n : ec[Len(ec)].data[j] = "null"
         THEN ReturnStep(TRUE)
       ELSE IF cfg.enrichData /\ done < Len(cand)
         THEN IF HasNull(Slice(cand, done)) THEN ReturnStep(TRUE)
              ELSE CallStep("enrichPeopleBulk", Ids(Slice(cand, done)))
       ELSE
         LET leads == LeadsOf(cfg, log)
             j == Len(OfOp(log, "createContact")) + 1
             created == CreatedOf(log)
         IN IF Len(OfOp(log, "addContactsToSequence")) > 0 THEN ReturnStep(FALSE)
            ELSE IF j <= Len(leads)
              THEN IF leads[j] = NullLead THEN ReturnStep(TRUE)
                   ELSE CallStep("createContact", <<leads[j].id>>)
            ELSE IF cfg.sequenceId /\ cfg.emailAccountId /\ Len(created) > 0
              THEN CallStep("addContactsToSequence", created)
            ELSE ReturnStep(FALSE)

\* The counters and error entries of a run as a function of the same.
ResultOf(cfg, log) ==
  IF ~log[1].success \/ log[1].n = 0 THEN ZeroResults
  ELSE
    LET cand == People(log[1].data)
        ec == OfOp(log, "enrichPeopleBulk")
        cc == OfOp(log, "createContact")
        sc == OfOp(log, "addContactsToSequence")
        loopOver == /\ cfg.enrichData
                    /\ Len(ec) * BatchSize >= Len(cand)
                    /\ ~(/\ ec[Len(ec)].success
                          /\ \E j \in 1..ec[Len(ec)].n : ec[Len(ec)].data[j] = "null")
        failed == SelectSeq(cc, LAMBDA c : ~(c.success /\ c.n = 1))
        created == Len(CreatedOf(log))
    IN [searched |-> log[1].n,
        enriched |-> IF loopOver THEN Len(EnrichedOf(cand, ec, 1)) ELSE 0,
        created |-> created,
        addedToSequence |-> IF Len(sc) > 0 /\ sc[1].success THEN created ELSE 0,
        errors |-> [j \in 1..Len(failed) |-> LeadError([id |-> failed[j].arg[1]],
                                                        ~failed[j].success)]
                     \o (IF Len(sc) > 0 /\ ~sc[1].success THEN <<StepError>> ELSE <<>>)]

\* C32: a run is deterministic in its config and in the outcomes of its
\* collaborator calls: every call it makes is the one NextStep names for the
\* outcomes so far, and when it returns, NextStep names the return and the
\* result is ResultOf the outcomes, error entries in the same order; neither
\* the clock nor the retries of the transport have a part in it.
C32_Deterministic ==
  [][/\ Len(calls') = Len(calls) + 1 =>
          LET step == NextStep(config', calls)
              made == calls'[Len(calls')]
          IN step = CallStep(made.op, made.arg)
     /\ (wpc \notin {"done", "rejected"} /\ wpc' = "done") =>
          /\ NextStep(config, calls') = ReturnStep(retval'.error)
          /\ retval'.results = ResultOf(config, calls')]_vars

C32_Witness ==
  /\ wpc = "done"
  /\ config.enrichData
  /\ Len(CallsOf("createContact")) = 2
  /\ Len(SequenceCalls) = 1
  /\ results.created = 1
  /\ Len(results.errors) = 2
  /\ lastRequestTime < now

\* The values a deployment may configure for maxAttempts.  Nothing in the
\* client reads such a setting: post() always runs request() with its
\* default, so the runs are the same under each of them.
AttemptSettings == {1, DefaultRetries}

\* C33: whatever maxAttempts is configured, a collaborator's post() issues at
\* most maxAttempts physical calls, and a run with L candidates and N records
\* to create makes at most 1 + ceil(L/10) + N + 1 such post() calls.
C33_ConfiguredAttemptsBound ==
  \A maxAttempts \in AttemptSettings :
    /\ req[Run].calls <= maxAttempts
    /\ Len(calls) >= 1 =>
         Len(calls) <= 1 + CeilDiv(calls[1].n, BatchSize) + Len(CreateArgs) + 1

\* C34: a failed enrichment chunk is dropped silently.  When an enrichment
\* call settles as a failure, nothing is added to errors or to the enriched
\* leads, no result is returned and the loop goes on; the loop dispatches the
\* next chunk whatever the earlier chunks did (unless mapping that chunk
\* throws); and a run in which every chunk was dispatched and failed makes no
\* creation call and returns enriched = 0, created = 0, no error entry and no
\* top-level error, with searched > 0.
C34_FailedChunkDropped ==
  /\ [][(wpc = "enrich" /\ wpc' # "enrich" /\ ~calls'[Len(calls')].success) =>
          /\ results' = results
          /\ enrichedLeads' = enrichedLeads
          /\ retval' = retval
          /\ wpc' = "enrichLoop"
          /\ idx' = idx + BatchSize]_vars
  /\ [][(/\ wpc = "enrichLoop"
          /\ idx < Len(leadsToProcess)
          /\ ~HasNull(Slice(leadsToProcess, idx))) =>
          /\ wpc' = "enrich"
          /\ calls' = Invoke("enrichPeopleBulk", Ids(Slice(leadsToProcess, idx)))]_vars
  /\ [](LET ec == EnrichCalls
        IN (/\ wpc = "done"
            /\ config.enrichData
            /\ SearchFound
            /\ Len(ec) = CeilDiv(calls[1].n, BatchSize)
            /\ \A k \in 1..Len(ec) : ~ec[k].success) =>
             /\ CreateArgs = <<>>
             /\ ~retval.error
             /\ retval.results = [ZeroResults EXCEPT !.searched = calls[1].n])

C34_Witness ==
  /\ wpc = "done"
  /\ config.enrichData
  /\ Len(EnrichCalls) = 2
  /\ ~EnrichCalls[1].success /\ ~EnrichCalls[2].success
  /\ retval.results = [ZeroResults EXCEPT !.searched = BatchSize + 1]
  /\ ~retval.error

RECURSIVE SumBackoff(_)
\* the sum of 2^a * 1000 for a from 0 to last
SumBackoff(last) == IF last < 0 THEN 0 ELSE BackoffDelay(last) + SumBackoff(last - 1)

\* C35: when the attempt with index retries - 1 fails retryably, request()
\* throws in the same step, with no timer armed; an operation that has used
\* up its attempts has waited 2^a * 1000 ms for a from 0 to retries - 2 in
\* all, 3000 ms for retries = 3.
C35_NoBackoffAfterLast ==
  /\ [][\A p \in Callers :
          (/\ req[p].pc = "inFlight"
           /\ req[p].attempt = req[p].retries - 1
           /\ req'[p].pc \notin {"inFlight", "returned"}
           /\ Retryable(req'[p].lastError.status)) =>
            /\ req'[p].pc = "thrown"
            /\ req'[p].waited = req[p].waited
            /\ req'[p].delay = 0 /\ req'[p].wakeAt = 0
            /\ now' = now]_vars
  /\ [](\A p \in Callers :
          (/\ req[p].pc = "thrown"
           /\ req[p].retries >= 1
           /\ req[p].attempt = req[p].retries) =>
            /\ req[p].waited = SumBackoff(req[p].retries - 2)
            /\ req[p].retries = DefaultRetries => req[p].waited = 3000)

C35_Witness ==
  /\ req[Run].pc = "thrown"
  /\ req[Run].retries = DefaultRetries
  /\ req[Run].attempt = DefaultRetries
  /\ req[Run].calls = DefaultRetries
  /\ req[Run].waited = 3000

\* the sequence-enrollment call was made and succeeded
Enrolled ==
  LET sc == SequenceCalls
  IN Len(sc) = 1 /\ sc[1].settled /\ sc[1].success

\* C36 as stated: in every returned result addedToSequence is 0 or created,
\* and it equals created if and only if the sequence-enrollment call was
\* made and succeeded.
C36_AddedEqualsCreatedIffEnrolled ==
  retval.kind = "returned" =>
    /\ retval.results.addedToSequence \in {0, retval.results.created}
    /\ retval.results.addedToSequence = retval.results.created <=> Enrolled

\* C36, amended: in every returned result addedToSequence is 0 or created;
\* it is created, and then at least 1, if the enrollment call was made and
\* succeeded, and 0 otherwise.
C36_AddedNonZeroIffEnrolled ==
  retval.kind = "returned" =>
    /\ retval.results.addedToSequence \in {0, retval.results.created}
    /\ Enrolled => /\ retval.results.addedToSequence = retval.results.created
                   /\ retval.results.created >= 1
    /\ ~Enrolled => retval.results.addedToSequence = 0

C36_Witness ==
  /\ retval.kind = "returned"
  /\ Enrolled
  /\ retval.results.created = 2
  /\ retval.results.addedToSequence = 2
  /\ Len(retval.results.errors) = 1

C38_RateStateMonotonic ==
  /\ [][now' >= now /\ lastRequestTime' >= lastRequestTime]_vars
  /\ [](lastRequestTime <= now)

C38_Witness ==
  /\ Len(dispatches) = 2
  /\ dispatches[1].caller # dispatches[2].caller
  /\ dispatches[1].time > Epoch
  /\ dispatches[2].time > dispatches[1].time
  /\ lastRequestTime = dispatches[2].time
  /\ lastRequestTime = now

\* C39: request() called with retries <= 0 issues no physical call and
\* fails all the same: once its _rateLimit() call has completed, at once or
\* after the sleep, which sets lastRequestTime, it throws its lastError, still
\* unset.
C39_NoAttemptStillFails ==
  /\ [](\A p \in Callers :
          (req[p].pc # "idle" /\ req[p].retries <= 0) =>
            /\ req[p].pc \in {"rateWait", "thrown"}
            /\ req[p].calls = 0
            /\ inFlight[p] = 0
            /\ req[p].lastError = NoError)
  /\ [][\A p \in Callers :
          (req'[p].retries <= 0 /\ req'[p].pc = "thrown" /\ req[p].pc # "thrown") =>
            /\ req[p].pc \in {"idle", "rateWait"}
            /\ lastRequestTime' = now
            /\ UNCHANGED <<inFlight, dispatches>>]_vars
  /\ [][\A p \in Callers :
          (req[p].retries <= 0 /\ req[p].pc = "rateWait" /\ req'[p] # req[p]) =>
            req'[p].pc = "thrown"]_vars

C39_Witness ==
  /\ req[Run].pc = "thrown"
  /\ req[Run].retries = -1
  /\ req[Run].calls = 0
  /\ req[Run].lastError = NoError
  /\ lastRequestTime = now
  /\ now > Epoch
====
